---- MODULE Spec2Model ----
(***************************************************************************)
(* MonotonicSplineTransformer (sklego/preprocessing/monotonicspline.py).   *)
(*                                                                         *)
(* The estimator wraps sklearn's SplineTransformer: fit validates X and    *)
(* fits a fresh SplineTransformer, transform checks the fitted attribute,  *)
(* validates X and returns the column-wise cumulative sum of the basis     *)
(* evaluation.                                                             *)
(*                                                                         *)
(* Numbers.  An entry of X is a pair: a finite number (an integer of the *)
(* grid 0..MaxVal), NaN, +inf, -inf, or a non-numeric string.  The basis   *)
(* is computed exactly, in integers: abscissae are scaled by n_knots - 1,  *)
(* which makes the uniform knots integers with spacing h = max - min, and  *)
(* a basis value of degree k is scaled by k! * h^k (the denominators of    *)
(* the Cox-de Boor recursion on uniform knots), a positive factor that is  *)
(* fixed by the fit for each input feature.                                *)
(***************************************************************************)
EXTENDS Integers, Sequences, FiniteSets, TLC

\* ---------------------------------------------------------------- bounds
MaxRows == 2
MaxVal == 3
MaxLifeVal == 1
MaxKnots == 3
MaxDegree == 3
MaxSamples == 100

\* ------------------------------------------------- program constants
OneMoreKnot == 3 + 1
DefaultNKnots == 3
DefaultDegree == 3
DefaultKnots == "uniform"

VARIABLES
    n_knots,              \* self.n_knots
    degree,               \* self.degree
    knots,                \* self.knots
    spline_transformer_,  \* self.spline_transformer_, or Absent
    result,               \* the outcome of the last call
    fit_completed,        \* history: some fit call has returned
    probe,                \* history: the X whose transform is remembered
    first                 \* history: <<what the first transform of probe since the
                          \* last fit call returned, whether another X was
                          \* transformed since>>, or <<>>

vars == <<n_knots, degree, knots, spline_transformer_, result, fit_completed, probe, first>>

\* ---------------------------------------------------------------- values
Num(v) == <<"num", v>>
Special(kind) == <<kind, 0>>
KindOf(e) == e[1]
ValueOf(e) == e[2]
NaN == Special("nan")
PosInf == Special("inf")
NegInf == Special("-inf")
Str == Special("str")

Rows(X) == Len(X)
Cols(X) == IF Len(X) = 0 THEN 0 ELSE Len(X[1])
HasKind(X, kinds) == \E i \in 1..Len(X) : \E j \in 1..Len(X[i]) : KindOf(X[i][j]) \in kinds

Absent == [set |-> FALSE]
NoCall == [op |-> "none", X |-> <<>>, status |-> "ok", by |-> "none", out |-> <<>>]
Raised(op, X, err, by) == [op |-> op, X |-> X, status |-> err, by |-> by, out |-> <<>>]
Returned(op, X, out) == [op |-> op, X |-> X, status |-> "ok", by |-> "none", out |-> out]

\* ---------------------------------------------------------------- inputs
\* The X a caller passes: finite matrices over the grid 0..maxval (every
\* single column of up to MaxRows rows; two columns, the second a scrambled
\* copy of the first, for the columns that start at 0), matrices with one
\* NaN, infinite or non-numeric entry, and the empty matrix.
Columns(maxval) == UNION {[1..r -> 0..maxval] : r \in 1..MaxRows}
OneCol(c) == [i \in 1..Len(c) |-> <<Num(c[i])>>]
TwoCol(c, maxval) == [i \in 1..Len(c) |-> <<Num(c[i]), Num((c[i] * (i + 1)) % (maxval + 1))>>]
FiniteInputs(maxval) ==
    {OneCol(c) : c \in Columns(maxval)}
        \cup {TwoCol(c, maxval) : c \in {d \in Columns(maxval) : d[1] = 0}}
Flawed(kind, r, nc) ==
    [i \in 1..r |-> [j \in 1..nc |->
        IF i = r /\ j = 1 THEN Special(kind)
        ELSE IF i = 1 THEN Num(1) ELSE Num(0)]]
FlawedInputs ==
    {Flawed(kind, r, nc) : kind \in {"nan", "inf", "-inf", "str"}, r \in 1..MaxRows, nc \in {1, 2}}
        \cup {<<>>, <<<<NaN>>, <<Str>>>>, <<<<Num(0)>>, <<NaN>>, <<PosInf>>>>}
Inputs == FiniteInputs(MaxLifeVal) \cup FlawedInputs
GridInputs == FiniteInputs(MaxVal) \cup FlawedInputs
Probes == {OneCol(<<0, 1>>), TwoCol(<<0, 1>>, MaxLifeVal)}
Linspace(n) == [i \in 1..n |-> <<Num(i - 1)>>]

\* ------------------------------------------------ sklearn collaborators
\* A variant with force_all_finite=True: NaN and infinities are rejected too.
check_array_finite(X) == Len(X) >= 1 /\ ~HasKind(X, {"str", "nan", "inf", "-inf"})

\* check_array(X, force_all_finite=False, dtype=FLOAT_DTYPES): X must be a
\* non-empty 2-D array convertible to float; NaN and infinities pass.
check_array(X) == Len(X) >= 1 /\ ~HasKind(X, {"str"})

\* check_is_fitted(self, "spline_transformer_"): the attribute exists.
check_is_fitted(st) == st.set

\* SplineTransformer(n_knots=..., degree=..., knots=...): an unfitted object.
SplineTransformer(nk, k, kn) ==
    [set |-> TRUE, n_knots |-> nk, degree |-> k, knots |-> kn,
     fitted |-> FALSE, n_features_in_ |-> 0, bsplines_ |-> <<>>]

\* What SplineTransformer.fit rejects: its parameter constraints and its own
\* input validation (finite entries only, at least two samples).
SplineParamsValid(st) == st.n_knots >= 2 /\ st.degree >= 0 /\ st.knots \in {"uniform", "quantile"}
SplineInputValid(X) == ~HasKind(X, {"nan", "inf", "-inf"})
SplineFitOk(st, X) == SplineParamsValid(st) /\ SplineInputValid(X) /\ Rows(X) >= 2

ColMin(X, c) == CHOOSE m \in {ValueOf(X[i][c]) : i \in 1..Len(X)} : \A i \in 1..Len(X) : m <= ValueOf(X[i][c])
ColMax(X, c) == CHOOSE m \in {ValueOf(X[i][c]) : i \in 1..Len(X)} : \A i \in 1..Len(X) : m >= ValueOf(X[i][c])

\* The knot vector of one feature for knots="uniform" (the one accepted
\* strategy the specifications construct), in units of
\* 1 / (n_knots - 1): the base knots linspace(lo, hi, n_knots), with degree
\* more knots on each side at the spacing of the first and last base knots.
KnotVector(lo, hi, nk, k) ==
    LET base == [m \in 1..nk |-> (nk - 1) * lo + (m - 1) * (hi - lo)]
        dist_min == base[2] - base[1]
        dist_max == base[nk] - base[nk - 1]
        left == [m \in 1..k |-> base[1] - (k + 1 - m) * dist_min]
        right == [m \in 1..k |-> base[nk] + m * dist_max]
    IN left \o base \o right

SplineFit(st, X) ==
    [st EXCEPT !.fitted = TRUE,
               !.n_features_in_ = Cols(X),
               !.bsplines_ = [c \in 1..Cols(X) |->
                                KnotVector(ColMin(X, c), ColMax(X, c), st.n_knots, st.degree)]]

\* scipy's find_interval: the last interval of [t[k+1], t[n+1]] whose left
\* knot is <= x; the right end belongs to the last interval.
FindInterval(t, k, x) ==
    LET n == Len(t) - k - 1
    IN CHOOSE l \in (k + 1)..n : t[l] <= x /\ \A m \in (k + 1)..n : t[m] <= x => m <= l

\* scipy's de Boor recurrence: h[m] is basis function ell - j + m of degree
\* j at x, times j! * h^j (each level's divisions by the knot differences,
\* j * h on uniform knots, are left out).
RECURSIVE DeBoor(_, _, _, _)
DeBoor(t, ell, j, x) ==
    IF j = 0 THEN [m \in 0..0 |-> 1]
    ELSE LET hh == DeBoor(t, ell, j - 1, x)
         IN [m \in 0..j |->
               (IF m < j THEN hh[m] * (t[ell + m + 1] - x) ELSE 0)
               + (IF m > 0 THEN hh[m - 1] * (x - t[ell + m - j]) ELSE 0)]

\* BSpline.__call__ with the identity coefficients: all the basis functions
\* at x, for x within the boundary knots.
BasisRow(t, k, x) ==
    LET ell == FindInterval(t, k, x)
        h == DeBoor(t, ell, k, x)
    IN [i \in 1..(Len(t) - k - 1) |-> IF ell - k <= i /\ i <= ell THEN h[i - (ell - k)] ELSE 0]

\* One feature's block of a row, extrapolation="constant": beyond the
\* boundary knots the first (last) degree columns take the boundary values.
SplineRow(t, k, x) ==
    LET n == Len(t) - k - 1
        xmin == t[k + 1]
        xmax == t[n + 1]
        f_min == BasisRow(t, k, xmin)
        f_max == BasisRow(t, k, xmax)
    IN IF xmin <= x /\ x <= xmax THEN BasisRow(t, k, x)
       ELSE IF x < xmin THEN [i \in 1..n |-> IF i <= k THEN f_min[i] ELSE 0]
       ELSE [i \in 1..n |-> IF i > n - k THEN f_max[i] ELSE 0]

RECURSIVE HStack(_, _)
HStack(blocks, c) == IF c = 0 THEN <<>> ELSE HStack(blocks, c - 1) \o blocks[c]

SplineBasis(st, X) ==
    [r \in 1..Rows(X) |->
        HStack([c \in 1..Cols(X) |->
                  SplineRow(st.bsplines_[c], st.degree, (st.n_knots - 1) * ValueOf(X[r][c]))],
               Cols(X))]

\* SplineTransformer.transform: its own fitted check, its input validation
\* (finite entries, the fit-time column count), then the basis matrix.
SplineTransform(st, X) ==
    IF ~st.fitted THEN [status |-> "NotFittedError", val |-> <<>>]
    ELSE IF ~SplineInputValid(X) \/ Cols(X) # st.n_features_in_
         THEN [status |-> "ValueError", val |-> <<>>]
    ELSE [status |-> "ok", val |-> SplineBasis(st, X)]

\* Variants: the sum along the wrong axis, the sum of the rows above, and
\* cumsum() without an axis, which flattens the matrix.
RECURSIVE Flatten(_, _)
Flatten(B, i) == IF i = 0 THEN <<>> ELSE Flatten(B, i - 1) \o B[i]

cumsum_flat(B) ==
    LET flat == Flatten(B, Len(B))
        acc[i \in 1..Len(flat)] == IF i = 1 THEN flat[1] ELSE acc[i - 1] + flat[i]
    IN [i \in 1..Len(flat) |-> acc[i]]

cumsum_axis1(B) ==
    [i \in 1..Len(B) |->
        LET acc[c \in 1..Len(B[i])] == IF c = 1 THEN B[i][1] ELSE acc[c - 1] + B[i][c]
        IN [c \in 1..Len(B[i]) |-> acc[c]]]

cumsum_exclusive(B) ==
    LET acc[i \in 1..Len(B)] ==
            IF i = 1 THEN [c \in 1..Len(B[1]) |-> 0]
            ELSE [c \in 1..Len(B[i]) |-> acc[i - 1][c] + B[i - 1][c]]
    IN [i \in 1..Len(B) |-> acc[i]]

\* ndarray.cumsum(axis=0): a running sum down the rows.
cumsum(B) ==
    LET acc[i \in 1..Len(B)] ==
            IF i = 1 THEN B[1] ELSE [c \in 1..Len(B[i]) |-> acc[i - 1][c] + B[i][c]]
    IN [i \in 1..Len(B) |-> acc[i]]

\* ---------------------------------------------------------------- fit
\* Lines 54-59.  Line 57 assigns the new, unfitted SplineTransformer to
\* self.spline_transformer_ before line 58 fits it.
FitState(st, nk, k, kn, X) ==
    IF ~check_array(X) THEN st
    ELSE IF SplineFitOk(SplineTransformer(nk, k, kn), X)
         THEN SplineFit(SplineTransformer(nk, k, kn), X)
    ELSE SplineTransformer(nk, k, kn)

FitResult(nk, k, kn, X) ==
    IF ~check_array(X) THEN Raised("fit", X, "ValueError", "check_array")
    ELSE IF ~SplineFitOk(SplineTransformer(nk, k, kn), X)
         THEN Raised("fit", X, "ValueError", "SplineTransformer.fit")
    ELSE Returned("fit", X, "self")

Fit(X) ==
    /\ spline_transformer_' = FitState(spline_transformer_, n_knots, degree, knots, X)
    /\ result' = FitResult(n_knots, degree, knots, X)
    /\ fit_completed' = (fit_completed \/ result'.status = "ok")
    /\ first' = <<>>
    /\ UNCHANGED <<n_knots, degree, knots, probe>>

\* ---------------------------------------------------------------- transform
\* A variant that fits the collaborator again on transform's X when it can.
TransformRefits(st, X) ==
    IF check_is_fitted(st) /\ check_array(X) /\ st.fitted /\ SplineFitOk(st, X)
       /\ Cols(X) = st.n_features_in_
    THEN SplineFit(st, X) ELSE st

\* Lines 78-85.  Nothing is assigned to self.
TransformState(st, X) == st

\* A variant that passes on only the leading fit-time columns of a wider X.
TransformResultTruncating(st, X) ==
    IF ~check_is_fitted(st) THEN Raised("transform", X, "NotFittedError", "check_is_fitted")
    ELSE IF ~check_array(X) THEN Raised("transform", X, "ValueError", "check_array")
    ELSE LET Xn == IF st.fitted /\ Cols(X) > st.n_features_in_
                   THEN [r \in 1..Rows(X) |-> SubSeq(X[r], 1, st.n_features_in_)]
                   ELSE X
             B == SplineTransform(st, Xn)
         IN IF B.status # "ok" THEN Raised("transform", X, B.status, "SplineTransformer.transform")
            ELSE Returned("transform", X, cumsum(B.val))

TransformResult(st, X) ==
    IF ~check_is_fitted(st) THEN Raised("transform", X, "NotFittedError", "check_is_fitted")
    ELSE IF ~check_array(X) THEN Raised("transform", X, "ValueError", "check_array")
    ELSE LET B == SplineTransform(st, X)
         IN IF B.status # "ok" THEN Raised("transform", X, B.status, "SplineTransformer.transform")
            ELSE Returned("transform", X, cumsum(B.val))

Transform(X) ==
    /\ result' = TransformResult(spline_transformer_, X)
    /\ spline_transformer_' = TransformState(spline_transformer_, X)
    /\ first' = IF first = <<>>
                THEN (IF X = probe /\ result'.status = "ok" THEN <<result'.out, FALSE>> ELSE <<>>)
                ELSE IF X # probe THEN <<first[1], TRUE>> ELSE first
    /\ UNCHANGED <<n_knots, degree, knots, fit_completed, probe>>

\* ---------------------------------------------------------------- specifications
\* __init__ stores its arguments unchecked (lines 30-32).
Construct(nk, k, kn) ==
    /\ n_knots = nk
    /\ degree = k
    /\ knots = kn
    /\ spline_transformer_ = Absent
    /\ result = NoCall
    /\ fit_completed = FALSE
    /\ first = <<>>

\* The default construction, and one construction for each parameter the
\* spline collaborator rejects at fit.
LifecycleParams ==
    {<<DefaultNKnots, DefaultDegree, DefaultKnots>>,
     <<1, DefaultDegree, DefaultKnots>>,
     <<DefaultNKnots, -1, DefaultKnots>>,
     <<DefaultNKnots, DefaultDegree, "bogus">>}

Init ==
    /\ \E p \in LifecycleParams : Construct(p[1], p[2], p[3])
    /\ probe = <<>>

Next == \E X \in Inputs : Fit(X) \/ Transform(X)

\* Any sequence of fit and transform calls on one estimator.
Spec == Init /\ [][Next]_vars

\* The same, with one transform input whose first result since the last
\* fit call is remembered.
InitDet == Construct(DefaultNKnots, DefaultDegree, DefaultKnots) /\ probe \in Probes

SpecDet == InitDet /\ [][Next]_vars

\* Every parameter combination of the bounds: one fit, then one transform.
InitParams ==
    /\ \E nk \in 1..MaxKnots, k \in 1..MaxDegree : Construct(nk, k, DefaultKnots)
    /\ probe = <<>>

FitOnce == \E X \in GridInputs : result.op = "none" /\ Fit(X)

TransformOnce == \E X \in GridInputs : result.op = "fit" /\ Transform(X)

NextParams == FitOnce \/ TransformOnce

SpecParams == InitParams /\ [][NextParams]_vars

\* The documented example: default parameters, evenly spaced samples (in
\* units of the spacing), transform of the X that was fitted.
InitExample == Construct(DefaultNKnots, DefaultDegree, DefaultKnots) /\ probe = <<>>

FitExample == \E n \in 1..MaxSamples : Fit(Linspace(n))

TransformExample == result.op = "fit" /\ Transform(result.X)

NextExample == FitExample \/ TransformExample

SpecExample == InitExample /\ [][NextExample]_vars

\* ---------------------------------------------------------------- claims
Fitted == spline_transformer_.set /\ spline_transformer_.fitted
TransformReturned == result.op = "transform" /\ result.status = "ok"
NonFinite == {"nan", "inf", "-inf"}
NumericNonEmpty(X) == Len(X) >= 1 /\ ~HasKind(X, {"str"})

RECURSIVE ColumnSum(_, _, _)
ColumnSum(B, c, i) == IF i = 0 THEN 0 ELSE ColumnSum(B, c, i - 1) + B[i][c]

\* C1: every column of a returned transform is non-decreasing in the row
\* order: for every column c and rows i < j, out[i][c] <= out[j][c].
C1_NonDecreasing ==
    TransformReturned =>
        \A i \in 1..Len(result.out) : \A j \in 1..Len(result.out) :
            i < j => \A c \in 1..Len(result.out[i]) : result.out[i][c] <= result.out[j][c]

C1_Witness ==
    /\ TransformReturned
    /\ Len(result.out) >= 2
    /\ \E c \in 1..Len(result.out[1]) : result.out[1][c] < result.out[Len(result.out)][c]
    /\ \E c \in 1..Len(result.out[1]) : result.out[1][c] = result.out[Len(result.out)][c]

\* C2: a returned transform is the column-wise prefix sum of the basis
\* matrix B of the fitted collaborator on X: out[i][c] is the sum of B[k][c]
\* over k = 1..i; the first row is B's first row and the last row holds the
\* column totals.
C2_PrefixSum ==
    TransformReturned =>
        LET B == SplineTransform(spline_transformer_, result.X).val
        IN /\ Len(result.out) = Len(B)
           /\ \A i \in 1..Len(B) :
                /\ Len(result.out[i]) = Len(B[i])
                /\ \A c \in 1..Len(B[i]) : result.out[i][c] = ColumnSum(B, c, i)
           /\ result.out[1] = B[1]

C2_Witness ==
    /\ TransformReturned
    /\ Len(result.out) >= 2
    /\ LET B == SplineTransform(spline_transformer_, result.X).val
       IN \E c \in 1..Len(B[1]) : B[1][c] > 0 /\ B[2][c] > 0 /\ result.out[2][c] = B[1][c] + B[2][c]

\* C3: a returned transform has as many rows as X and n_knots + degree - 1
\* columns for each input feature, the feature count being the one of the fit.
C3_Shape ==
    TransformReturned =>
        /\ Len(result.out) = Rows(result.X)
        /\ Cols(result.X) = spline_transformer_.n_features_in_
        /\ \A i \in 1..Len(result.out) :
              Len(result.out[i]) = spline_transformer_.n_features_in_ * (n_knots + degree - 1)

C3_Witness ==
    /\ TransformReturned
    /\ Cols(result.X) = 2
    /\ Rows(result.X) = MaxRows
    /\ n_knots = MaxKnots
    /\ degree = MaxDegree
    /\ Len(result.out[1]) = 2 * (MaxKnots + MaxDegree - 1)

\* C4: while no fit call has ever returned, every transform call raises the
\* not-fitted error and returns nothing, whatever X is.
C4_NotFittedFirst ==
    (~fit_completed /\ result.op = "transform") =>
        result.status = "NotFittedError" /\ result.out = <<>>

C6_ColumnMismatch ==
    [][(/\ Fitted
        /\ result'.op = "transform"
        /\ Cols(result'.X) # spline_transformer_.n_features_in_) =>
            /\ result'.status # "ok"
            /\ result'.out = <<>>
            /\ spline_transformer_' = spline_transformer_]_vars

C6_Witness ==
    /\ result.op = "transform"
    /\ Fitted
    /\ NumericNonEmpty(result.X)
    /\ ~HasKind(result.X, NonFinite)
    /\ Cols(result.X) > spline_transformer_.n_features_in_
    /\ result.status = "ValueError"
    /\ result.by = "SplineTransformer.transform"

\* C7: once transform(X) has returned on a fitted estimator, every later
\* transform(X), after any other transform calls, returns the same output.
C7_Deterministic ==
    (result.op = "transform" /\ result.X = probe /\ first # <<>>) =>
        result.status = "ok" /\ result.out = first[1]

C7_Witness ==
    /\ result.op = "transform"
    /\ result.X = probe
    /\ first # <<>>
    /\ first[2]
    /\ \E c \in 1..Len(result.out[1]) : result.out[Len(result.out)][c] > 0

\* C8, as stated: with the default parameters, fitting 100 evenly spaced
\* samples of one feature and transforming them returns 100 rows of 4 columns.
C8_ExampleFourColumns ==
    (TransformReturned /\ result.X = Linspace(100)) =>
        /\ Len(result.out) = 100
        /\ \A i \in 1..100 : Len(result.out[i]) = 4

\* C8, amended: it returns 100 rows of 5 columns, n_knots + degree - 1 of the
\* defaults.
C8_ExampleFiveColumns ==
    (TransformReturned /\ result.X = Linspace(100)) =>
        /\ Len(result.out) = 100
        /\ \A i \in 1..100 : Len(result.out[i]) = 5

C8_Witness ==
    /\ TransformReturned
    /\ result.X = Linspace(100)
    /\ spline_transformer_.bsplines_ = <<KnotVector(0, 99, 3, 3)>>
    /\ \A c \in 1..5 : result.out[100][c] > result.out[1][c]

\* C9: the estimator is unfitted or fitted; only a fit call that returns
\* takes it from unfitted to fitted, no call takes it from fitted to unfitted,
\* and a fit call that returns leaves the basis of its own X and parameters.
C9_TwoStates ==
    [][/\ Fitted => Fitted'
       /\ (~Fitted /\ Fitted') => (result'.op = "fit" /\ result'.status = "ok")
       /\ \A X \in Inputs : (Fit(X) /\ result'.status = "ok") =>
             spline_transformer_' = SplineFit(SplineTransformer(n_knots, degree, knots), X)]_vars

\* C10: a fit call that raises leaves self.spline_transformer_ as it was:
\* absent if it was absent, the same fitted basis otherwise.
C10_FailedFitKeepsState ==
    [][\A X \in Inputs :
          (Fit(X) /\ result'.status # "ok") => spline_transformer_' = spline_transformer_]_vars

====
